---------------------------- MODULE Spec2Model ----------------------------
(***************************************************************************)
(* A model of robot_mission_planner: the route solver of app.py            *)
(* (PathSolver and its Flask handlers), the route solver of src/gui2.py    *)
(* (TSPGUI), the cost grid of src/replan.py and the file transfer of       *)
(* app.py (create_wormhole, its capture thread, cancel_wormhole).          *)
(*                                                                         *)
(* Python lists are 0-based and TLA+ sequences 1-based: element i of a     *)
(* Python list l is l[i + 1] here.  Node indices, point ids and paths keep *)
(* the program's 0-based numbers.                                          *)
(***************************************************************************)
EXTENDS Integers, Sequences, FiniteSets, TLC

\* Longest point list the model builds.
MaxPoints == 3

\* The values of a point's 'type' (app.py:30, gui2.py:38,48,58).
Types == {"start", "goal", "intermediate"}

\* Latitudes and longitudes, in whole degrees, that the web client posts.
Degrees == {0, 1}

\* Canvas coordinates (event.x, event.y) of a click.
Pixels == {0, 1}

VARIABLES
    prog,           \* the program that runs: "app" (app.py) or "gui" (gui2.py)
    points,         \* self.points of PathSolver / TSPGUI
    click_count,    \* TSPGUI.click_count
    point_counter,  \* TSPGUI.point_counter
    ret,            \* what the last call returned or displayed
    pc,             \* per web client: where its request stands in the Flask handler
    local,          \* per web client: the local variables of its handler
    resp,           \* per web client: the response to its latest request
    own             \* per web client: the points it added since it last cleared

web_vars == <<pc, local, resp, own>>

VARIABLES
    grid_call,      \* the arguments of the last create_grid call
    grid,           \* the grid create_grid returned
    map_data,       \* the MapData in use: barriers_list and footways_list
    filled,         \* how the last fill_grid call ended
    near,           \* how the last points_near_ref call ended
    neighbor_cost   \* the cost shape fill_grid is set to (replan.py:51)

grid_vars == <<grid_call, grid, map_data, filled, near, neighbor_cost>>

VARIABLES
    split           \* the last split_ways call: its arguments and its result

split_vars == <<split>>

VARIABLES
    active_transfers,   \* app.py:17, transfer id -> entry (status, code)
    process,            \* the wormhole send process: running, exited, killed
    stdout,             \* the process has printed its "Wormhole code is:" line
    temp_dir,           \* the directory of tempfile.mkdtemp(): none, exists, removed
    request,            \* the create_wormhole request: its position and response
    thread,             \* the position of the capture_wormhole_code thread
    wormhole_code,      \* the thread's local wormhole_code is set
    cancel,             \* the position of the cancel_wormhole request
    key_error           \* the lines at which the thread looked up an absent id

worm_vars == <<active_transfers, process, stdout, temp_dir, request, thread,
               wormhole_code, cancel, key_error>>

vars == <<prog, points, click_count, point_counter, ret, web_vars, grid_vars,
          split_vars, worm_vars>>

---------------------------------------------------------------------------
(* Helpers *)

\* range(n)
Range(n) == 0 .. (n - 1)

\* set(l)
SetOf(l) == {l[k] : k \in 1 .. Len(l)}

RECURSIVE Bisect(_, _, _)
\* The largest r in lo..hi with r * r <= n (lo * lo <= n < (hi + 1)^2).
Bisect(lo, hi, n) ==
    IF lo = hi THEN lo
    ELSE LET mid == (lo + hi + 1) \div 2
         IN  IF mid * mid <= n THEN Bisect(mid, hi, n) ELSE Bisect(lo, mid - 1, n)

\* floor(sqrt(n)) for 0 <= n < 2^31
ISqrt(n) == Bisect(0, 46340, n)

\* [i for i, p in enumerate(pts) if p['type'] == t]   (ascending)
IndicesOfType(pts, t) ==
    LET S == {i \in Range(Len(pts)) : pts[i + 1].type = t}
        RECURSIVE Asc(_)
        Asc(T) == IF T = {} THEN <<>>
                  ELSE LET m == CHOOSE x \in T : \A y \in T : x <= y
                       IN  <<m>> \o Asc(T \ {m})
    IN  Asc(S)

---------------------------------------------------------------------------
(* Distance matrices *)

\* int(6371000 * 2 * arcsin(sqrt(a))) of app.py:43-50 for whole-degree
\* coordinates in Degrees, evaluated in IEEE double arithmetic as the code does.
Haversine(lat1, lng1, lat2, lng2) ==
    LET dlng == IF lng2 >= lng1 THEN lng2 - lng1 ELSE lng1 - lng2
    IN  CASE lat1 = lat2 /\ dlng = 0 -> 0
          [] lat1 = 0 /\ lat2 = 0 /\ dlng = 1 -> 111194
          [] lat1 = 1 /\ lat2 = 1 /\ dlng = 1 -> 111177
          [] lat1 # lat2 /\ dlng = 0 -> 111194
          [] lat1 # lat2 /\ dlng = 1 -> 157249

\* PathSolver.compute_distance_matrix_euclidean
compute_distance_matrix_euclidean(pts) ==
    LET n == Len(pts)
    IN  [i \in Range(n) |-> [j \in Range(n) |->
            IF i # j
            THEN Haversine(pts[i + 1].lat, pts[i + 1].lng, pts[j + 1].lat, pts[j + 1].lng)
            ELSE 0]]

\* The squared Euclidean distance of two points.
Norm2(p, q) == (p.x - q.x) * (p.x - q.x) + (p.y - q.y) * (p.y - q.y)

\* compute_distance_matrix without the test i != j of gui2.py:75 and rounding
\* up: int(np.linalg.norm(a - b) * 1000) + 1 in every entry.
compute_distance_matrix_rounded_up(pts) ==
    LET n == Len(pts)
    IN  [i \in Range(n) |-> [j \in Range(n) |->
            ISqrt(Norm2(pts[i + 1], pts[j + 1]) * 1000000) + 1]]

\* TSPGUI.compute_distance_matrix: int(np.linalg.norm(a - b) * 1000)
compute_distance_matrix(pts) ==
    LET n == Len(pts)
    IN  [i \in Range(n) |-> [j \in Range(n) |->
            IF i # j THEN ISqrt(Norm2(pts[i + 1], pts[j + 1]) * 1000000) ELSE 0]]

---------------------------------------------------------------------------
(* The routing search (OR-Tools), seen from its callers *)

\* What a call returns or displays.  total / unit is the number reported:
\* app.py prints whole metres (unit 1), gui2.py prints '{:.2f}' (unit 100).
\* calls lists, in order, the computations the call went through.
Return(op, ok, path, message, total, unit, calls) ==
    [op |-> op, ok |-> ok, path |-> path, message |-> message,
     total |-> total, unit |-> unit, calls |-> calls]

NoRet == Return("none", FALSE, <<>>, "", 0, 1, <<>>)

\* 'if not solution': SolveWithParameters found no assignment.
NoSolution == [found |-> FALSE, next |-> <<>>]

\* The orders that visit every node once, from s to g.
Orders(n, s, g) ==
    {p \in [1 .. n -> Range(n)] :
        /\ p[1] = s
        /\ p[n] = g
        /\ \A a, b \in 1 .. n : p[a] = p[b] => a = b}

\* The values of the NextVar variables that describe order p.
NextOf(p, n, g) ==
    [i \in Range(n) \ {g} |-> p[(CHOOSE k \in 1 .. (n - 1) : p[k] = i) + 1]]

\* routing.SolveWithParameters for RoutingIndexManager(n, 1, [s], [g]) with no
\* disjunctions: no solution within the time limit, or a route from s to g
\* through every node (whichever the time-limited search ends with).
\* With sound = FALSE the search may assign the NextVars any values at all.
SolveWithParameters(n, s, g, sound) ==
    {NoSolution} \cup
    {[found |-> TRUE, next |-> nx] :
        nx \in IF sound THEN {NextOf(p, n, g) : p \in Orders(n, s, g)}
               ELSE [Range(n) \ {g} -> Range(n)]}

---------------------------------------------------------------------------
(* app.py: PathSolver *)

\* Reject, were the distance matrix computed before the checks.
RejectAfterMatrix(message) ==
    Return("solve_path", FALSE, <<>>, message, 0, 1, <<"compute_distance_matrix">>)

\* app.py:56,62: return None, message -- before any computation
Reject(message) == Return("solve_path", FALSE, <<>>, message, 0, 1, <<>>)

\* app.py:104-105: the arc into index is added unless index is the end
ArcAdded(D, previous_index, index, g) ==
    IF index # g THEN D[previous_index][index] ELSE 0

RECURSIVE ExtractPathNoEnd(_, _, _, _, _, _, _)
\* ExtractPath without line 107, the append of the end node.
ExtractPathNoEnd(nx, g, D, index, path, total_distance, fuel) ==
    IF index = g
    THEN [done |-> TRUE, path |-> path, total |-> total_distance]
    ELSE IF fuel = 0
    THEN [done |-> FALSE, path |-> path, total |-> total_distance]
    ELSE ExtractPathNoEnd(nx, g, D, nx[index], Append(path, index),
                          total_distance + ArcAdded(D, index, nx[index], g), fuel - 1)

RECURSIVE ExtractPath(_, _, _, _, _, _, _)
\* app.py:95-107: follow NextVar from routing.Start(0) to the end node.
\* fuel counts the loop's iterations: a walk of more than n steps has
\* entered a cycle and the loop never ends (done = FALSE).
ExtractPath(nx, g, D, index, path, total_distance, fuel) ==
    IF index = g
    THEN [done |-> TRUE, path |-> Append(path, g), total |-> total_distance]
    ELSE IF fuel = 0
    THEN [done |-> FALSE, path |-> path, total |-> total_distance]
    ELSE ExtractPath(nx, g, D, nx[index], Append(path, index),
                     total_distance + ArcAdded(D, index, nx[index], g), fuel - 1)

\* PathSolver.solve_path: the results the call can return on point list pts.
PathSolver_solve_path(pts, sound) ==
    IF Len(pts) < 2 THEN {Reject("Need at least 2 points")}
    ELSE
    LET start_points == IndicesOfType(pts, "start")
        goal_points == IndicesOfType(pts, "goal")
    IN
    IF start_points = <<>> \/ goal_points = <<>>
    THEN {Reject("Need both start and goal points")}
    ELSE
    LET start_idx == start_points[1]
        goal_idx == goal_points[1]
        distance_matrix == compute_distance_matrix_euclidean(pts)
        n == Len(pts)
        calls == <<"compute_distance_matrix", "SolveWithParameters">>
        Result(solution) ==
            IF ~solution.found
            THEN Return("solve_path", FALSE, <<>>, "No solution found", 0, 1, calls)
            ELSE LET e == ExtractPath(solution.next, goal_idx, distance_matrix,
                                      start_idx, <<>>, 0, n)
                 IN  Return("solve_path", e.done, e.path, "Total distance",
                            e.total, 1, calls)
    \* a walk that never reaches the end node never returns: no result
    IN  {r \in {Result(sol) : sol \in SolveWithParameters(n, start_idx, goal_idx, sound)} :
            r.ok \/ r.message = "No solution found"}

\* PathSolver.add_point
add_point(lat, lng, point_type) ==
    /\ prog = "app"
    /\ Len(points) < MaxPoints
    /\ LET point_id == Len(points)
       IN  /\ points' = Append(points, [id |-> point_id, lat |-> lat, lng |-> lng,
                                         type |-> point_type])
           /\ ret' = Return("add_point", TRUE, <<>>, "", point_id, 1, <<>>)
    /\ UNCHANGED <<grid_vars, split_vars, worm_vars, prog, click_count, point_counter, web_vars>>

\* PathSolver.solve_path, called on self.points
solve_path(sound) ==
    /\ prog = "app"
    /\ ret' \in PathSolver_solve_path(points, sound)
    /\ UNCHANGED <<grid_vars, split_vars, worm_vars, prog, points, click_count, point_counter, web_vars>>

\* PathSolver.clear_points
clear_points ==
    /\ prog = "app"
    /\ points' = <<>>
    /\ ret' = Return("clear_points", TRUE, <<>>, "", 0, 1, <<>>)
    /\ UNCHANGED <<grid_vars, split_vars, worm_vars, prog, click_count, point_counter, web_vars>>

---------------------------------------------------------------------------
(* src/gui2.py: TSPGUI *)

\* gui2.py:82-83,85-86,90-91: messagebox.showwarning(...); return
Warn(message) == Return("solve_path", FALSE, <<>>, message, 0, 100, <<>>)

RECURSIVE Walk(_, _, _, _, _)
\* gui2.py:130-136: follow NextVar from routing.Start(0) to the end node
\* (done = FALSE: the loop never ends).
Walk(nx, g, index, path, fuel) ==
    IF index = g THEN [done |-> TRUE, path |-> Append(path, g)]
    ELSE IF fuel = 0 THEN [done |-> FALSE, path |-> path]
    ELSE Walk(nx, g, nx[index], Append(path, index), fuel - 1)

\* gui2.py:139: len(set(path)) != len(self.points)
NotAllIncluded(path, pts) == Cardinality(SetOf(path)) # Len(pts)

RECURSIVE SumNorms(_, _, _)
\* gui2.py:147-154: the sum of np.linalg.norm over path[i], path[i + 1] for
\* i in range(i0, len(path) - 1), in units of 1e-4 (each norm truncated).
SumNorms(pts, path, i0) ==
    IF i0 >= Len(path) - 1 THEN 0
    ELSE ISqrt(Norm2(pts[path[i0 + 1] + 1], pts[path[i0 + 2] + 1]) * 100000000)
         + SumNorms(pts, path, i0 + 1)

\* gui2.py:157: f"{actual_distance:.2f}", as a number of hundredths
actual_distance(pts, path) == (SumNorms(pts, path, 0) + 50) \div 100

\* TSPGUI.solve_path: what the call can display on point list pts.
TSPGUI_solve_path(pts, clicks, sound) ==
    IF Len(pts) < 2 THEN {Warn("Please add at least 2 points.")}
    ELSE IF clicks < 2 THEN {Warn("Please add both start and goal points.")}
    ELSE
    LET start_idx == IndicesOfType(pts, "start")[1]
        goal_idx == IndicesOfType(pts, "goal")[1]
        start_point == pts[start_idx + 1]
        goal_point == pts[goal_idx + 1]
    IN
    IF start_point.x = goal_point.x /\ start_point.y = goal_point.y /\ Len(pts) = 2
    THEN {Warn("Start and goal cannot be the same without intermediate points.")}
    ELSE
    LET n == Len(pts)
        calls == <<"compute_distance_matrix", "SolveWithParameters">>
        Result(solution) ==
            IF ~solution.found
            THEN Return("solve_path", FALSE, <<>>, "No solution found.", 0, 100, calls)
            ELSE LET e == Walk(solution.next, goal_idx, start_idx, <<>>, n)
                 IN  IF ~e.done
                     THEN Return("solve_path", FALSE, e.path, "never returns", 0, 100, calls)
                     ELSE IF NotAllIncluded(e.path, pts)
                     THEN Return("solve_path", FALSE, <<>>,
                                 "Solution does not include all points.", 0, 100, calls)
                     ELSE Return("solve_path", TRUE, e.path, "Total distance",
                                 actual_distance(pts, e.path), 100, calls)
    \* a walk that never reaches the end node never returns: no result
    IN  {r \in {Result(sol) : sol \in SolveWithParameters(n, start_idx, goal_idx, sound)} :
            r.message # "never returns"}

\* TSPGUI.add_point
TSPGUI_add_point(x, y) ==
    /\ prog = "gui"
    /\ Len(points) < MaxPoints
    /\ LET point_id == point_counter
           type == IF click_count = 0 THEN "start"
                   ELSE IF click_count = 1 THEN "goal" ELSE "intermediate"
       IN  /\ point_counter' = point_counter + 1
           /\ points' = Append(points, [x |-> x, y |-> y, id |-> point_id, type |-> type])
           /\ click_count' = click_count + 1
           /\ ret' = Return("add_point", TRUE, <<>>, "", point_id, 1, <<>>)
    /\ UNCHANGED <<grid_vars, split_vars, worm_vars, prog, web_vars>>

\* TSPGUI.solve_path, called on self.points
TSPGUI_solve(sound) ==
    /\ prog = "gui"
    /\ ret' \in TSPGUI_solve_path(points, click_count, sound)
    /\ UNCHANGED <<grid_vars, split_vars, worm_vars, prog, points, click_count, point_counter, web_vars>>

\* clear_canvas without self.point_counter = 0 (gui2.py:162): the ids of
\* later points go on from the counter of the cleared list.
clear_canvas_keeping_counter ==
    /\ prog = "gui"
    /\ points' = <<>>
    /\ click_count' = 0
    /\ ret' = Return("clear_canvas", TRUE, <<>>, "", 0, 1, <<>>)
    /\ UNCHANGED <<grid_vars, split_vars, worm_vars, prog, point_counter, web_vars>>

\* TSPGUI.clear_canvas
clear_canvas ==
    /\ prog = "gui"
    /\ points' = <<>>
    /\ click_count' = 0
    /\ point_counter' = 0
    /\ ret' = Return("clear_canvas", TRUE, <<>>, "", 0, 1, <<>>)
    /\ UNCHANGED <<grid_vars, split_vars, worm_vars, prog, web_vars>>

---------------------------------------------------------------------------
(* Rational numbers <<numerator, denominator>>, denominator > 0, in lowest  *)
(* terms: the coordinates and sizes of src/replan.py                        *)

RECURSIVE Gcd(_, _)
Gcd(a, b) == IF b = 0 THEN a ELSE Gcd(b, a % b)

Abs(a) == IF a < 0 THEN -a ELSE a

Q(n, d) == LET g == Gcd(Abs(n), d) IN <<n \div g, d \div g>>

QInt(n) == <<n, 1>>
QAdd(a, b) == Q(a[1] * b[2] + b[1] * a[2], a[2] * b[2])
QSub(a, b) == Q(a[1] * b[2] - b[1] * a[2], a[2] * b[2])
QMul(a, b) == Q(a[1] * b[1], a[2] * b[2])
QLe(a, b) == a[1] * b[2] <= b[1] * a[2]
QLt(a, b) == a[1] * b[2] < b[1] * a[2]

\* np.ceil(a / b).astype(int) for rationals a >= 0, b > 0
QCeilDiv(a, b) ==
    LET n == a[1] * b[2]
        d == a[2] * b[1]
    IN  (n + d - 1) \div d

---------------------------------------------------------------------------
(* src/replan.py: create_grid, fill_grid, points_near_ref *)

\* Largest coordinate of a bounding box corner, a barrier corner or a way node.
MaxCoord == 2

\* The cell sizes tried.
CellSizes == {Q(1, 2), Q(1, 1), Q(2, 1)}

\* np.linspace(start, stop, num): num samples from start to stop, both included
linspace(start, stop, num) ==
    [i \in 1 .. num |->
        IF num = 1 THEN QInt(start)
        ELSE Q(start * (num - 1) + (i - 1) * (stop - start), num - 1)]

\* create_grid: meshgrid(xs, ys) stacked and reshaped to rows (x, y), x
\* varying fastest, padded with a third column of zeros
create_grid(low, high, cell_size) ==
    LET xs == linspace(low[1], high[1], QCeilDiv(QInt(high[1] - low[1]), cell_size))
        ys == linspace(low[2], high[2], QCeilDiv(QInt(high[2] - low[2]), cell_size))
    IN  [k \in 1 .. (Len(xs) * Len(ys)) |->
            <<xs[((k - 1) % Len(xs)) + 1], ys[((k - 1) \div Len(xs)) + 1], QInt(0)>>]

\* obstacle.line.contains(Point(row[:2])): a barrier is the closed box
\* lo .. hi, given by its corners.
Contains(obstacle, row) ==
    /\ QLe(QInt(obstacle.lo[1]), row[1]) /\ QLe(row[1], QInt(obstacle.hi[1]))
    /\ QLe(QInt(obstacle.lo[2]), row[2]) /\ QLe(row[2], QInt(obstacle.hi[2]))

\* replan.py:36-45: obstacle_grid[i] = True for a row inside some barrier
obstacle_grid(g, barriers_list) ==
    [i \in 1 .. Len(g) |->
        \E b \in 1 .. Len(barriers_list) : Contains(barriers_list[b], g[i])]

\* How a call ended: the exception it raised ("" for none) and what it
\* returned; tested is the number of rows put to the obstacle test before.
Ended(raised, value, tested) == [raised |-> raised, grid |-> value, tested |-> tested]

NotCalled == Ended("not called", <<>>, 0)

\* fill_grid: the obstacle loop of lines 41-45 runs; line 49 then reads the
\* name 'points', which is bound neither in fill_grid nor in the module, and
\* the call ends in NameError for every argument.
fill_grid(g, md, cell_size) ==
    LET og == obstacle_grid(g, md.barriers_list)
    IN  Ended("NameError", <<>>, Len(og))

\* points_near_ref: line 92 reads the name 'cKDTree', which the module never
\* imports: NameError for every argument.
points_near_ref(pts, reference, max_dist) == Ended("NameError", <<>>, 0)

\* replan.py:50: max_path_dist = 1
max_path_dist == 1

\* SegmentPoints with the loop of replan.py:137-138 appending
\* point0 + j * step * vec: the points start at the segment's start node
\* and stop one step short of its end node.
SegmentPointsFromStart(point0, point1, max_dist) ==
    LET dx == point1[1] - point0[1]
        dy == point1[2] - point0[2]
        dist2 == dx * dx + dy * dy
        num == CHOOSE k \in 1 .. (dist2 * max_dist[2] * max_dist[2] + 1) :
                 /\ k * k * max_dist[1] * max_dist[1] >= dist2 * max_dist[2] * max_dist[2]
                 /\ \A h \in 1 .. (k - 1) :
                      h * h * max_dist[1] * max_dist[1] < dist2 * max_dist[2] * max_dist[2]
    IN  IF dist2 * 1000000 <= 1 THEN <<<<QInt(point1[1]), QInt(point1[2])>>>>
        ELSE [j \in 1 .. num |->
                <<Q(point0[1] * num + (j - 1) * dx, num),
                  Q(point0[2] * num + (j - 1) * dy, num)>>]

\* replan.py:128-138: the points emitted for the segment point0 -> point1:
\* point1 alone when dist <= 1e-3, else point0 + (j + 1) * step * vec for
\* j in range(num), num = ceil(dist / max_dist), step = dist / num
SegmentPoints(point0, point1, max_dist) ==
    LET dx == point1[1] - point0[1]
        dy == point1[2] - point0[2]
        dist2 == dx * dx + dy * dy
        \* the least num with num * max_dist >= dist
        num == CHOOSE k \in 1 .. (dist2 * max_dist[2] * max_dist[2] + 1) :
                 /\ k * k * max_dist[1] * max_dist[1] >= dist2 * max_dist[2] * max_dist[2]
                 /\ \A h \in 1 .. (k - 1) :
                      h * h * max_dist[1] * max_dist[1] < dist2 * max_dist[2] * max_dist[2]
    IN  IF dist2 * 1000000 <= 1 THEN <<<<QInt(point1[1]), QInt(point1[2])>>>>
        ELSE [j \in 1 .. num |->
                <<Q(point0[1] * num + j * dx, num), Q(point0[2] * num + j * dy, num)>>]

RECURSIVE WayPoints(_, _, _)
\* replan.py:121-138 for one way, from its segment i (0-based) on
WayPoints(nodes, i, max_dist) ==
    IF i + 2 > Len(nodes) THEN <<>>
    ELSE (IF i = 0 THEN <<<<QInt(nodes[1][1]), QInt(nodes[1][2])>>>> ELSE <<>>)
         \o SegmentPoints(nodes[i + 1], nodes[i + 2], max_dist)
         \o WayPoints(nodes, i + 1, max_dist)

RECURSIVE split_ways(_, _)
\* split_ways: the way points of every way, in order (a way's nodes are
\* given by their coordinates, points[n.id])
split_ways(ways, max_dist) ==
    IF ways = <<>> THEN <<>>
    ELSE WayPoints(Head(ways), 0, max_dist) \o split_ways(Tail(ways), max_dist)

\* The corners of bounding boxes and barriers.
Corners == (0 .. MaxCoord) \X (0 .. MaxCoord)

\* The barriers tried: boxes with lo <= hi.
Barriers == {[lo |-> l, hi |-> h] : l \in {<<0, 0>>, <<1, 1>>}, h \in {<<1, 1>>, <<MaxCoord, MaxCoord>>}}

\* The footways tried: sequences of node coordinates.
Footways == {<<<<0, 0>>, <<1, 0>>>>, <<<<0, 0>>, <<0, 0>>, <<MaxCoord, MaxCoord>>>>}

\* The MapData tried: up to one barrier, up to one footway.
MapDatas ==
    {[barriers_list |-> b, footways_list |-> w] :
        b \in {<<>>} \cup {<<x>> : x \in Barriers},
        w \in {<<>>} \cup {<<x>> : x \in Footways}}

\* grid = create_grid(low, high, cell_size)
call_create_grid(low, high, cell_size) ==
    /\ low[1] < high[1]
    /\ low[2] < high[2]
    /\ grid_call' = [low |-> low, high |-> high, cell_size |-> cell_size]
    /\ grid' = create_grid(low, high, cell_size)
    /\ filled' = NotCalled
    /\ near' = NotCalled
    /\ UNCHANGED <<map_data, neighbor_cost, split_vars, worm_vars, prog, points, click_count,
                   point_counter, ret, web_vars>>

\* map_data = pickle.load(fh)   (replan.py:144-145)
load_map_data(md) ==
    /\ map_data' = md
    /\ filled' = NotCalled
    /\ near' = NotCalled
    /\ UNCHANGED <<grid_call, grid, neighbor_cost, split_vars, worm_vars, prog, points,
                   click_count, point_counter, ret, web_vars>>

\* fill_grid(grid, map_data, cell_size)
call_fill_grid ==
    /\ grid_call # <<>>
    /\ filled' = fill_grid(grid, map_data, grid_call.cell_size)
    /\ UNCHANGED <<grid_call, grid, map_data, near, neighbor_cost, split_vars, worm_vars, prog,
                   points, click_count, point_counter, ret, web_vars>>

\* points_near_ref(grid, reference, 1) on the nodes of the footways
call_points_near_ref ==
    /\ grid_call # <<>>
    /\ near' = points_near_ref(grid, map_data.footways_list, 1)
    /\ UNCHANGED <<grid_call, grid, map_data, filled, neighbor_cost, split_vars, worm_vars, prog,
                   points, click_count, point_counter, ret, web_vars>>

\* The values the assignment neighbor_cost = ... of replan.py:51 is given:
\* the three shapes fill_grid tests for (lines 53-58) and one it does not.
NeighborCosts == {"linear", "quadratic", "zero", "cubic"}

\* replan.py:51 edited to assign another shape; the results of earlier
\* fill_grid calls are of the previous setting
set_neighbor_cost(shape) ==
    /\ shape # neighbor_cost
    /\ neighbor_cost' = shape
    /\ filled' = NotCalled
    /\ UNCHANGED <<grid_call, grid, map_data, near, split_vars, worm_vars, prog, points,
                   click_count, point_counter, ret, web_vars>>

\* The arguments of a split_ways call that has not been made yet.
ToSplit(ways, max_dist) ==
    [ways |-> ways, max_dist |-> max_dist, called |-> FALSE, waypoints |-> <<>>]

\* waypoints = split_ways(points, ways, max_dist)
call_split_ways ==
    /\ split' = [split EXCEPT !.called = TRUE,
                              !.waypoints = split_ways(split.ways, split.max_dist)]
    /\ UNCHANGED <<grid_vars, worm_vars, prog, points, click_count, point_counter, ret,
                   web_vars>>

SplitIdle == split = ToSplit(<<>>, Q(1, 1))

GridIdle ==
    /\ neighbor_cost = "quadratic"
    /\ grid_call = <<>>
    /\ grid = <<>>
    /\ map_data = [barriers_list |-> <<>>, footways_list |-> <<>>]
    /\ filled = NotCalled
    /\ near = NotCalled

---------------------------------------------------------------------------
(* app.py: the Flask handlers over the module-level solver (app.py:115) *)

\* Longest point list, shared or a client's own, in the web model.
MaxWebPoints == 2

\* The clients whose requests the threaded server handles concurrently.
Clients == {"a", "b"}

\* The handler's JSON response (status 200), or the 500 of an uncaught error.
Response(op, success, message, path, point_id, total_points) ==
    [op |-> op, success |-> success, message |-> message, path |-> path,
     point_id |-> point_id, total_points |-> total_points]

\* No response yet: the request is in flight, or none was made.
NoResponse == Response("none", FALSE, "", <<>>, 0, 0)

NoLocal == [point_id |-> 0, point |-> <<>>, result |-> NoRet]

\* The requests in flight that will still append a point.
Adding == {c \in Clients : pc[c] = "add_point"}

\* /add_point up to PathSolver.add_point's line 25: point_id = len(self.points)
web_add_point_start(c, lat, lng, point_type) ==
    /\ pc[c] = "idle"
    /\ Len(points) + Cardinality(Adding) < MaxWebPoints
    /\ Len(own[c]) < MaxWebPoints
    /\ pc' = [pc EXCEPT ![c] = "add_point"]
    /\ local' = [local EXCEPT ![c] =
            [point_id |-> Len(points),
             point |-> [lat |-> lat, lng |-> lng, type |-> point_type],
             result |-> NoRet]]
    /\ resp' = [resp EXCEPT ![c] = NoResponse]
    /\ UNCHANGED <<grid_vars, split_vars, worm_vars, prog, points, click_count, point_counter, ret, own>>

\* /add_point from line 26: self.points.append(...), then the response
web_add_point_finish(c) ==
    /\ pc[c] = "add_point"
    /\ LET pt == local[c].point
       IN  /\ points' = Append(points, [id |-> local[c].point_id, lat |-> pt.lat,
                                         lng |-> pt.lng, type |-> pt.type])
           /\ own' = [own EXCEPT ![c] = Append(@, [id |-> Len(@), lat |-> pt.lat,
                                                    lng |-> pt.lng, type |-> pt.type])]
    /\ resp' = [resp EXCEPT ![c] =
            Response("add_point", TRUE, "", <<>>, local[c].point_id, Len(points'))]
    /\ pc' = [pc EXCEPT ![c] = "idle"]
    /\ local' = [local EXCEPT ![c] = NoLocal]
    /\ UNCHANGED <<grid_vars, split_vars, worm_vars, prog, click_count, point_counter, ret>>

\* /clear_points
web_clear_points(c) ==
    /\ pc[c] = "idle"
    /\ points' = <<>>
    /\ own' = [own EXCEPT ![c] = <<>>]
    /\ resp' = [resp EXCEPT ![c] = Response("clear_points", TRUE, "", <<>>, 0, 0)]
    /\ UNCHANGED <<grid_vars, split_vars, worm_vars, prog, click_count, point_counter, ret, pc, local>>

\* app.py:143-147: the response when solver.solve_path() returned no path
Failure(r) == Response("solve_path", FALSE, r.message, <<>>, 0, 0)

\* /solve_path, line 141: path, message = solver.solve_path(), and the
\* failure response of lines 143-147 when path is None
web_solve_path_start(c) ==
    /\ pc[c] = "idle"
    /\ \E r \in PathSolver_solve_path(points, TRUE) :
          IF ~r.ok
          THEN /\ resp' = [resp EXCEPT ![c] = Failure(r)]
               /\ UNCHANGED <<pc, local>>
          ELSE /\ resp' = [resp EXCEPT ![c] = NoResponse]
               /\ pc' = [pc EXCEPT ![c] = "solve_path"]
               /\ local' = [local EXCEPT ![c].result = r]
    /\ UNCHANGED <<grid_vars, split_vars, worm_vars, prog, points, click_count, point_counter, ret, own>>

\* app.py:149-163: path_coords from solver.points[idx] for idx in path, read
\* from the list as it is now; an index past its end raises IndexError (500).
PathCoords(r, pts) ==
    IF \E k \in 1 .. Len(r.path) : r.path[k] >= Len(pts)
    THEN Response("solve_path", FALSE, "IndexError", <<>>, 0, 0)
    ELSE Response("solve_path", TRUE, r.message,
                  [k \in 1 .. Len(r.path) |-> pts[r.path[k] + 1]], r.total, 0)

\* /solve_path, lines 149-163
web_solve_path_finish(c) ==
    /\ pc[c] = "solve_path"
    /\ resp' = [resp EXCEPT ![c] = PathCoords(local[c].result, points)]
    /\ pc' = [pc EXCEPT ![c] = "idle"]
    /\ local' = [local EXCEPT ![c] = NoLocal]
    /\ UNCHANGED <<grid_vars, split_vars, worm_vars, prog, points, click_count, point_counter, ret, own>>

---------------------------------------------------------------------------
(* The file transfer: create_wormhole, its capture thread, cancel_wormhole *)

\* str(uuid4()) of the one create_wormhole request (app.py:212)
transfer_id == "t1"

\* What create_wormhole and the process leave unchanged.
solver_vars == <<prog, points, click_count, point_counter, ret, web_vars, grid_vars,
                 split_vars>>

\* An entry of active_transfers; code is whether the key 'code' is set.
Entry(status, code) == [status |-> status, code |-> code]

\* transfer_id in active_transfers
Has == transfer_id \in DOMAIN active_transfers

\* active_transfers.pop(transfer_id, None)
Pop == [t \in DOMAIN active_transfers \ {transfer_id} |-> active_transfers[t]]

\* process.kill(): a process that has ended stays as it ended
Kill(p) == IF p = "running" THEN "killed" ELSE p

\* shutil.rmtree(temp_dir) inside try/except: an error is swallowed
Rmtree(d) == IF d = "exists" THEN "removed" ELSE d

\* A position of the request with its response message.
At(position, message) == [pc |-> position, message |-> message]

\* create_wormhole, lines 177-191: no GPX data, or the directory and file made
create_wormhole_begin(gpx) ==
    /\ request.pc = "idle"
    /\ IF gpx
       THEN /\ temp_dir' = "exists"
            /\ request' = At("checking", "")
       ELSE /\ request' = At("returned", "No GPX data provided")
            /\ UNCHANGED temp_dir
    /\ UNCHANGED <<active_transfers, process, stdout, thread, wormhole_code, cancel,
                   key_error, solver_vars>>

\* create_wormhole, lines 193-297: the version check and, when it passes,
\* Popen, the entry of active_transfers and the start of the thread.
\* An OSError of Popen goes to the handler of lines 325-342.
check_and_start(outcome) ==
    /\ request.pc = "checking"
    /\ CASE outcome = "CalledProcessError" ->
              /\ request' = At("returned", "Magic-Wormhole is not installed or not working")
              /\ UNCHANGED <<active_transfers, process, temp_dir, thread>>
         [] outcome = "FileNotFoundError" ->
              /\ request' = At("returned", "'wormhole' command not found")
              /\ UNCHANGED <<active_transfers, process, temp_dir, thread>>
         [] outcome = "OSError" ->
              /\ temp_dir' = Rmtree(temp_dir)
              /\ active_transfers' = Pop
              /\ request' = At("returned", "Error creating wormhole")
              /\ UNCHANGED <<process, thread>>
         [] outcome = "started" ->
              /\ process' = "running"
              /\ active_transfers' = (transfer_id :> Entry("running", FALSE))
              /\ thread' = "capture"
              /\ request' = At("polling", "")
              /\ UNCHANGED temp_dir
    /\ UNCHANGED <<stdout, wormhole_code, cancel, key_error, solver_vars>>

\* create_wormhole, lines 301-308: the code is there within the 10 seconds
request_poll ==
    /\ request.pc = "polling"
    /\ Has
    /\ active_transfers[transfer_id].code
    /\ request' = At("returned", "success")
    /\ UNCHANGED <<active_transfers, process, stdout, temp_dir, thread, wormhole_code,
                   cancel, key_error, solver_vars>>

\* create_wormhole, lines 300, 311-316: the 10 seconds are over
give_up_kill ==
    /\ request.pc = "polling"
    /\ process' = Kill(process)
    /\ temp_dir' = Rmtree(temp_dir)
    /\ request' = At("giving_up", "")
    /\ UNCHANGED <<active_transfers, stdout, thread, wormhole_code, cancel, key_error,
                   solver_vars>>

\* create_wormhole, lines 317-323
give_up_pop ==
    /\ request.pc = "giving_up"
    /\ active_transfers' = Pop
    /\ request' = At("returned", "Failed to capture wormhole code within 10 seconds")
    /\ UNCHANGED <<process, stdout, temp_dir, thread, wormhole_code, cancel, key_error,
                   solver_vars>>

\* The process prints "Wormhole code is: ...".
process_prints_code ==
    /\ process = "running"
    /\ ~stdout
    /\ stdout' = TRUE
    /\ UNCHANGED <<active_transfers, process, temp_dir, request, thread, wormhole_code,
                   cancel, key_error, solver_vars>>

\* The process ends by itself with return code 0 or 1.
process_exits(returncode) ==
    /\ process = "running"
    /\ process' = IF returncode = 0 THEN "exited_0" ELSE "exited_1"
    /\ UNCHANGED <<active_transfers, stdout, temp_dir, request, thread, wormhole_code,
                   cancel, key_error, solver_vars>>

\* The thread raises KeyError at line: the handler of lines 288-294 is next.
KeyError(line) ==
    /\ key_error' = key_error \cup {line}
    /\ thread' = "handler"

\* capture_wormhole_code, lines 247-264, an iteration that leaves the loop:
\* the code line is read, or the process has ended
thread_capture ==
    /\ thread = "capture"
    /\ stdout \/ process # "running"
    /\ IF stdout
       THEN wormhole_code' = TRUE /\ thread' = "store_code"
       ELSE wormhole_code' = wormhole_code /\ thread' = "wait"
    /\ UNCHANGED <<active_transfers, process, stdout, temp_dir, request, cancel,
                   key_error, solver_vars>>

\* line 260: active_transfers[transfer_id]['code'] = wormhole_code
thread_store_code ==
    /\ thread = "store_code"
    /\ IF Has
       THEN /\ active_transfers' = [active_transfers EXCEPT ![transfer_id].code = TRUE]
            /\ thread' = "wait"
            /\ UNCHANGED key_error
       ELSE KeyError(260) /\ UNCHANGED active_transfers
    /\ UNCHANGED <<process, stdout, temp_dir, request, wormhole_code, cancel, solver_vars>>

\* line 268, left operand: process.poll() is None
thread_wait_poll ==
    /\ thread = "wait"
    /\ thread' = IF process = "running" THEN "wait_time" ELSE "status"
    /\ UNCHANGED <<active_transfers, process, stdout, temp_dir, request, wormhole_code,
                   cancel, key_error, solver_vars>>

\* line 268, right operand: the lookup of start_time, then time.sleep(1)
\* or, once the 60 seconds are over, the end of the loop
thread_wait_time(elapsed) ==
    /\ thread = "wait_time"
    /\ IF Has
       THEN thread' = (IF elapsed THEN "status" ELSE "wait") /\ UNCHANGED key_error
       ELSE KeyError(268)
    /\ UNCHANGED <<active_transfers, process, stdout, temp_dir, request, wormhole_code,
                   cancel, solver_vars>>

\* lines 271-276: the process killed if it still runs, the status written
thread_status ==
    /\ thread = "status"
    /\ process' = Kill(process)
    /\ IF Has
       THEN /\ active_transfers' =
                  [active_transfers EXCEPT ![transfer_id].status =
                      IF process = "running" THEN "timed_out"
                      ELSE IF process = "exited_0" THEN "completed" ELSE "failed"]
            /\ thread' = "cleanup"
            /\ UNCHANGED key_error
       ELSE /\ KeyError(IF process = "running" THEN 274 ELSE 276)
            /\ UNCHANGED active_transfers
    /\ UNCHANGED <<stdout, temp_dir, request, wormhole_code, cancel, solver_vars>>

\* lines 279-283
thread_cleanup ==
    /\ thread = "cleanup"
    /\ temp_dir' = Rmtree(temp_dir)
    /\ thread' = "no_code"
    /\ UNCHANGED <<active_transfers, process, stdout, request, wormhole_code, cancel,
                   key_error, solver_vars>>

\* lines 285-287
thread_no_code ==
    /\ thread = "no_code"
    /\ IF wormhole_code
       THEN thread' = "done" /\ UNCHANGED <<active_transfers, key_error>>
       ELSE IF Has
            THEN /\ active_transfers' = [active_transfers EXCEPT ![transfer_id].status = "failed"]
                 /\ thread' = "done"
                 /\ UNCHANGED key_error
            ELSE KeyError(286) /\ UNCHANGED active_transfers
    /\ UNCHANGED <<process, stdout, temp_dir, request, wormhole_code, cancel, solver_vars>>

\* lines 288-294: the handler of the thread; a KeyError of its line 290 is
\* caught by nothing and ends the thread
thread_handler ==
    /\ thread = "handler"
    /\ IF Has
       THEN /\ active_transfers' = [active_transfers EXCEPT ![transfer_id].status = "failed"]
            /\ process' = Kill(process)
            /\ thread' = "done"
            /\ UNCHANGED key_error
       ELSE /\ key_error' = key_error \cup {290}
            /\ thread' = "died"
            /\ UNCHANGED <<active_transfers, process>>
    /\ UNCHANGED <<stdout, temp_dir, request, wormhole_code, cancel, solver_vars>>

\* cancel_wormhole, lines 345-363, called with the transfer_id of a
\* successful create_wormhole response
cancel_wormhole_begin ==
    /\ request = At("returned", "success")
    /\ cancel # "cleaning"
    /\ IF Has
       THEN process' = Kill(process) /\ cancel' = "cleaning"
       ELSE process' = process /\ cancel' = "unknown"
    /\ UNCHANGED <<active_transfers, stdout, temp_dir, request, thread, wormhole_code,
                   key_error, solver_vars>>

\* cancel_wormhole, lines 365-376
cancel_wormhole_finish ==
    /\ cancel = "cleaning"
    /\ temp_dir' = Rmtree(temp_dir)
    /\ active_transfers' = Pop
    /\ cancel' = "cancelled"
    /\ UNCHANGED <<process, stdout, request, thread, wormhole_code, key_error, solver_vars>>

\* No transfer: active_transfers = {} and no request yet.
WormIdle ==
    /\ active_transfers = <<>>
    /\ process = "none"
    /\ stdout = FALSE
    /\ temp_dir = "none"
    /\ request = At("idle", "")
    /\ thread = "none"
    /\ wormhole_code = FALSE
    /\ cancel = "idle"
    /\ key_error = {}

ClientsIdle ==
    /\ pc = [c \in Clients |-> "idle"]
    /\ local = [c \in Clients |-> NoLocal]
    /\ resp = [c \in Clients |-> NoResponse]
    /\ own = [c \in Clients |-> <<>>]

WebIdle ==
    /\ GridIdle
    /\ SplitIdle
    /\ WormIdle
    /\ ClientsIdle

InitWeb ==
    /\ prog = "app"
    /\ points = <<>>
    /\ click_count = 0
    /\ point_counter = 0
    /\ ret = NoRet
    /\ WebIdle

NextWeb ==
    \E c \in Clients :
        \/ \E t \in Types : web_add_point_start(c, 0, 0, t)
        \/ web_add_point_finish(c)
        \/ web_clear_points(c)
        \/ web_solve_path_start(c)
        \/ web_solve_path_finish(c)

\* The web application serving its clients' requests concurrently.
SpecWeb == InitWeb /\ [][NextWeb]_vars

---------------------------------------------------------------------------
(* src/replan.py, its functions called one after another *)

InitGrid ==
    /\ prog = "replan"
    /\ points = <<>>
    /\ click_count = 0
    /\ point_counter = 0
    /\ ret = NoRet
    /\ WebIdle

NextGrid ==
    \/ \E low \in Corners, high \in Corners, cell_size \in CellSizes :
            call_create_grid(low, high, cell_size)
    \/ \E md \in MapDatas : load_map_data(md)
    \/ call_fill_grid
    \/ call_points_near_ref
    \/ \E shape \in NeighborCosts : set_neighbor_cost(shape)

SpecGrid == InitGrid /\ [][NextGrid]_vars

\* The ways split_ways is tried on: up to MaxNodes nodes each, on the corners.
MaxNodes == 3

RECURSIVE Ways(_)
Ways(n) ==
    IF n = 0 THEN {<<>>}
    ELSE Ways(n - 1) \cup {Append(w, c) : w \in {v \in Ways(n - 1) : Len(v) = n - 1}, c \in Corners}

\* Every way of up to MaxNodes nodes.
AllWays == Ways(MaxNodes)

\* The ways lists split_ways is applied to: one way, or a two-node way
\* followed by the footway (0,0) -> (1,0).
SplitInputs ==
    {<<w>> : w \in AllWays}
        \cup {<<w, <<<<0, 0>>, <<1, 0>>>>>> : w \in {v \in AllWays : Len(v) = 2}}

InitSplit ==
    /\ prog = "replan"
    /\ points = <<>>
    /\ click_count = 0
    /\ point_counter = 0
    /\ ret = NoRet
    /\ GridIdle
    /\ ClientsIdle
    /\ WormIdle
    /\ split \in {ToSplit(ways, max_dist) : ways \in SplitInputs, max_dist \in CellSizes}

NextSplit == call_split_ways

\* split_ways applied to each of the inputs.
SpecSplit == InitSplit /\ [][NextSplit]_vars

InitWormhole ==
    /\ prog = "app"
    /\ points = <<>>
    /\ click_count = 0
    /\ point_counter = 0
    /\ ret = NoRet
    /\ WebIdle

\* The steps of the create_wormhole request.
RequestStep ==
    \/ \E gpx \in BOOLEAN : create_wormhole_begin(gpx)
    \/ \E outcome \in {"CalledProcessError", "FileNotFoundError", "OSError", "started"} :
            check_and_start(outcome)
    \/ request_poll
    \/ give_up_kill
    \/ give_up_pop

\* The steps of the capture thread.
ThreadStep ==
    \/ thread_capture
    \/ thread_store_code
    \/ thread_wait_poll
    \/ \E elapsed \in BOOLEAN : thread_wait_time(elapsed)
    \/ thread_status
    \/ thread_cleanup
    \/ thread_no_code
    \/ thread_handler

NextWormhole ==
    \/ RequestStep
    \/ ThreadStep
    \/ process_prints_code
    \/ \E returncode \in {0, 1} : process_exits(returncode)
    \/ cancel_wormhole_begin
    \/ cancel_wormhole_finish

\* One transfer: the request, its thread, the process and cancel requests,
\* interleaved in every order.
SpecWormhole == InitWormhole /\ [][NextWormhole]_vars

\* The same, with every handler and the thread running on once started, and
\* the 60 seconds of line 268 over at some time.
FairSpecWormhole ==
    /\ SpecWormhole
    /\ WF_vars(RequestStep)
    /\ WF_vars(ThreadStep)
    /\ SF_vars(thread_wait_time(TRUE))
    /\ WF_vars(cancel_wormhole_finish)

---------------------------------------------------------------------------
(* The route solvers, one call after another *)

Init ==
    /\ prog \in {"app", "gui"}
    /\ points = <<>>
    /\ click_count = 0
    /\ point_counter = 0
    /\ ret = NoRet
    /\ WebIdle

Next ==
    \/ \E lat \in Degrees, lng \in Degrees, t \in Types : add_point(lat, lng, t)
    \/ solve_path(TRUE)
    \/ clear_points
    \/ \E x \in Pixels, y \in Pixels : TSPGUI_add_point(x, y)
    \/ TSPGUI_solve(TRUE)
    \/ clear_canvas

Spec == Init /\ [][Next]_vars

\* The same calls over a search that may hand back any NextVar values.
NextAnySearch ==
    \/ \E lat \in Degrees, lng \in Degrees, t \in Types : add_point(lat, lng, t)
    \/ solve_path(FALSE)
    \/ clear_points
    \/ \E x \in Pixels, y \in Pixels : TSPGUI_add_point(x, y)
    \/ TSPGUI_solve(FALSE)
    \/ clear_canvas

SpecAnySearch == Init /\ [][NextAnySearch]_vars

---------------------------------------------------------------------------
(* Claims about solve_path *)

\* The last call was solve_path and it reported success.
Solved == ret.op = "solve_path" /\ ret.ok

\* How often node i occurs in path.
Occurrences(path, i) == Cardinality({k \in 1 .. Len(path) : path[k] = i})

\* The number of points of type t.
CountType(pts, t) == Cardinality({k \in 1 .. Len(pts) : pts[k].type = t})

\* The distance matrix of the running program.
Matrix == IF prog = "app" THEN compute_distance_matrix_euclidean(points)
          ELSE compute_distance_matrix(points)

RECURSIVE PathCost(_, _, _)
\* The sum of D[path[k]][path[k+1]] for k = k0 .. len(path) - 2 (0-based).
PathCost(D, path, k0) ==
    IF k0 + 2 > Len(path) THEN 0
    ELSE D[path[k0 + 1]][path[k0 + 2]] + PathCost(D, path, k0 + 1)

\* C1: when solve_path reports success on N points, the path has length N,
\* starts at the start index, ends at the goal index and holds every index
\* 0..N-1 exactly once.
C1_PathVisitsAllOnce ==
    Solved =>
        LET n == Len(points)
            s == IndicesOfType(points, "start")[1]
            g == IndicesOfType(points, "goal")[1]
        IN  /\ n >= 2
            /\ Len(ret.path) = n
            /\ ret.path[1] = s
            /\ ret.path[n] = g
            /\ \A i \in Range(n) : Occurrences(ret.path, i) = 1

\* C1 witness: a solved route over three points whose start is not point 0.
C1_Witness ==
    /\ Solved
    /\ Len(points) = 3
    /\ ret.path[1] # 0
    /\ ret.path[3] # 2

\* C2: the reported total equals the sum of the distance-matrix entries over
\* all consecutive pairs of the returned path, the edge into the goal included.
C2_TotalIsSumOfEdges ==
    Solved => ret.total = ret.unit * PathCost(Matrix, ret.path, 0)

\* C3: solve_path on fewer than 2 points, or without a start, or without a
\* goal, returns an error before the distance matrix is computed and before
\* the solver is invoked, and leaves the point list unchanged.
C3_RejectsBeforeComputing ==
    [][(/\ ret'.op = "solve_path"
        /\ \/ Len(points) < 2
           \/ CountType(points, "start") = 0
           \/ CountType(points, "goal") = 0)
       => (/\ ~ret'.ok
           /\ ret'.path = <<>>
           /\ ret'.calls = <<>>
           /\ points' = points)]_vars

\* C3 witness: two or more points, none of them a goal, and solve_path
\* has answered with the missing-role error.
C3_Witness ==
    /\ ret.op = "solve_path"
    /\ ret.message = "Need both start and goal points"
    /\ Len(points) >= 2
    /\ CountType(points, "start") >= 1
    /\ CountType(points, "goal") = 0

\* C4: a point list that reaches the solver holds exactly one start and one
\* goal; with two or more starts or goals solve_path reports an error and the
\* solver is not invoked.
C4_DuplicateRolesRejected ==
    (ret.op = "solve_path" /\ ret.calls # <<>>) =>
        /\ CountType(points, "start") = 1
        /\ CountType(points, "goal") = 1

\* C5: whatever NextVar values the search hands back, solve_path reports
\* success only if the walk holds every input index exactly once.
C5_SuccessOnlyIfAllVisited ==
    Solved => \A i \in Range(Len(points)) : Occurrences(ret.path, i) = 1

\* Two points have the same coordinates.
SameCoords(p, q) ==
    IF prog = "app" THEN p.lat = q.lat /\ p.lng = q.lng
    ELSE p.x = q.x /\ p.y = q.y

\* C6: when the points are only the start and the goal and the two coincide,
\* solve_path returns the single-node path with total cost zero and the
\* search is not invoked.
C6_TrivialPathWhenCoincident ==
    (/\ ret.op = "solve_path"
     /\ Len(points) = 2
     /\ CountType(points, "start") = 1
     /\ CountType(points, "goal") = 1
     /\ SameCoords(points[1], points[2]))
    => (/\ ret.ok
        /\ Len(ret.path) = 1
        /\ ret.total = 0
        /\ ret.calls = <<>>)

---------------------------------------------------------------------------
(* Claims about concurrent requests *)

\* What /solve_path answers a client whose points are pts and nobody else's.
AloneResponses(pts) ==
    {IF r.ok THEN PathCoords(r, pts) ELSE Failure(r) :
        r \in PathSolver_solve_path(pts, TRUE)}

\* C7: concurrent requests do not interfere: what a client's /solve_path
\* returns is determined by the points that client added alone, and the
\* handler never indexes a point list another request changed meanwhile.
C7_RequestsDoNotInterfere ==
    \A c \in Clients :
        resp[c].op = "solve_path" =>
            /\ resp[c].message # "IndexError"
            /\ resp[c] \in AloneResponses(own[c])

\* C7, the handler's read alone: no /solve_path ends in an IndexError.
C7_NoIndexError ==
    \A c \in Clients : resp[c].message # "IndexError"

---------------------------------------------------------------------------
(* Claims about the cost grid *)

\* np.inf
Inf == <<1, 0>>

\* C8: for a bounding box with max > min on both axes and a positive
\* cell_size, create_grid returns ceil((max - min) / cell_size) samples per
\* axis, starting at the minimum, consecutive samples exactly cell_size apart,
\* row-major with x varying fastest, each with cost 0.
C8_SamplesCellSizeApart ==
    grid_call # <<>> =>
        LET cs == grid_call.cell_size
            lo == grid_call.low
            hi == grid_call.high
            nx == QCeilDiv(QInt(hi[1] - lo[1]), cs)
            ny == QCeilDiv(QInt(hi[2] - lo[2]), cs)
        IN  /\ Len(grid) = nx * ny
            /\ \A k \in 1 .. Len(grid) :
                   /\ grid[k][1] = QAdd(QInt(lo[1]), QMul(QInt((k - 1) % nx), cs))
                   /\ grid[k][2] = QAdd(QInt(lo[2]), QMul(QInt((k - 1) \div nx), cs))
                   /\ grid[k][3] = QInt(0)

\* Row i of the grid lies inside at least one barrier.
Obstacle(i) ==
    \E b \in 1 .. Len(map_data.barriers_list) : Contains(map_data.barriers_list[b], grid[i])

\* fill_grid returned a grid with the rows of its input.
GridReturned == filled.raised = "" /\ Len(filled.grid) = Len(grid)

\* C9: in the grid fill_grid returns, every cell inside at least one barrier
\* has cost +infinity and the x and y of the input grid.
C9_ObstacleCellsInfinite ==
    filled # NotCalled =>
        \A i \in 1 .. Len(grid) :
            Obstacle(i) =>
                /\ GridReturned
                /\ filled.grid[i][3] = Inf
                /\ filled.grid[i][1] = grid[i][1]
                /\ filled.grid[i][2] = grid[i][2]

\* The squared distance of two points with rational coordinates.
QDist2(a, b) ==
    QAdd(QMul(QSub(a[1], b[1]), QSub(a[1], b[1])),
         QMul(QSub(a[2], b[2]), QSub(a[2], b[2])))

\* Row i of the grid is max_path_dist or more away from every way point.
OffPath(i) ==
    LET paths == split_ways(map_data.footways_list, grid_call.cell_size)
    IN  \A w \in 1 .. Len(paths) :
            QLe(QInt(max_path_dist * max_path_dist), QDist2(grid[i], paths[w]))

\* C10: in the grid fill_grid returns, every non-obstacle cell whose nearest
\* way point is max_path_dist or more away carries the off-path cost, which
\* is finite, above every on-path cost (those lie in [0, 1)) and below
\* +infinity.
C10_OffPathCostFinite ==
    filled # NotCalled =>
        \A i \in 1 .. Len(grid) :
            (~Obstacle(i) /\ OffPath(i)) =>
                /\ GridReturned
                /\ filled.grid[i][3] # Inf
                /\ QLe(QInt(1), filled.grid[i][3])

\* The cost shapes fill_grid has a branch for (replan.py:53-58).
KnownShapes == {"linear", "quadratic", "zero"}

NumPoints(point0, point1, max_dist) ==
    LET d2 == QDist2(<<QInt(point0[1]), QInt(point0[2])>>,
                     <<QInt(point1[1]), QInt(point1[2])>>)
        m2 == QMul(max_dist, max_dist)
    IN  IF QLe(d2, Q(1, 1000000)) THEN 1
        ELSE CHOOSE k \in 1 .. (d2[1] * max_dist[2] * max_dist[2] + 1) :
                /\ QLe(d2, QMul(QInt(k * k), m2))
                /\ QLt(QMul(QInt((k - 1) * (k - 1)), m2), d2)

RECURSIVE Emitted(_, _, _)
\* The number of points of a way after its first k segments.
Emitted(way, k, max_dist) ==
    IF k = 0 THEN 1
    ELSE Emitted(way, k - 1, max_dist) + NumPoints(way[k], way[k + 1], max_dist)

\* The number of points of a way: none when it has no segment.
WayTotal(way, max_dist) ==
    IF Len(way) < 2 THEN 0 ELSE Emitted(way, Len(way) - 1, max_dist)

RECURSIVE Before(_, _, _)
\* The number of points of the ways before way n.
Before(ways, n, max_dist) ==
    IF n = 1 THEN 0
    ELSE Before(ways, n - 1, max_dist) + WayTotal(ways[n - 1], max_dist)

\* C12: for every way with at least two nodes split_ways emits the first
\* node once, then for each segment of length L > 1e-3 exactly
\* ceil(L / max_dist) points evenly spaced along it, the last one the
\* segment's end node, and for a segment of length <= 1e-3 only its end
\* node; consecutive points of a way are at most max_dist apart; and the way
\* (0,0) -> (1,0) with step 1/2 yields (0,0), (1/2,0), (1,0).
C12_SplitWaysEvenlySpaced ==
    split.called =>
        LET out == split.waypoints
            m == split.max_dist
            ws == split.ways
        IN  /\ Len(out) = Before(ws, Len(ws) + 1, m)
            /\ \A n \in 1 .. Len(ws) :
                  Len(ws[n]) >= 2 =>
                    LET way == ws[n]
                        base == Before(ws, n, m)
                    IN  /\ out[base + 1] = <<QInt(way[1][1]), QInt(way[1][2])>>
                        /\ \A i \in 1 .. (Len(way) - 1) :
                              LET cnt == NumPoints(way[i], way[i + 1], m)
                                  at == base + Emitted(way, i - 1, m)
                              IN  /\ \A j \in 1 .. cnt : \A c \in 1 .. 2 :
                                        out[at + j][c] =
                                            QAdd(QInt(way[i][c]),
                                                 QMul(Q(j, cnt), QInt(way[i + 1][c] - way[i][c])))
                                  /\ out[at + cnt] =
                                        <<QInt(way[i + 1][1]), QInt(way[i + 1][2])>>
                        /\ \A k \in (base + 1) .. (base + WayTotal(way, m) - 1) :
                              QLe(QDist2(out[k], out[k + 1]), QMul(m, m))
            /\ (ws = <<<<<<0, 0>>, <<1, 0>>>>>> /\ m = Q(1, 2)) =>
                  out = <<<<Q(0, 1), Q(0, 1)>>, <<Q(1, 2), Q(0, 1)>>, <<Q(1, 1), Q(0, 1)>>>>

\* split_ways has split a way of a zero-length segment followed by the
\* diagonal (0,0) -> (2,2) with step 1/2: the first node, the end node of
\* the zero-length segment, and ceil(2 * sqrt(2) / 0.5) = 6 points.
C12_Witness ==
    /\ split.called
    /\ split.ways = <<<<<<0, 0>>, <<0, 0>>, <<2, 2>>>>>>
    /\ split.max_dist = Q(1, 2)
    /\ Len(split.waypoints) = 8
    /\ split.waypoints[8] = <<Q(2, 1), Q(2, 1)>>

\* The squared distances from row i of the grid to the way points.
WayDist2(i) ==
    LET paths == split_ways(map_data.footways_list, grid_call.cell_size)
    IN  {QDist2(grid[i], paths[w]) : w \in 1 .. Len(paths)}

\* The squared distance d * d from row i to its nearest way point.
NearestDist2(i) == CHOOSE d \in WayDist2(i) : \A e \in WayDist2(i) : QLe(d, e)

\* Row i has a way point less than max_path_dist away.
OnPath(i) ==
    \E d \in WayDist2(i) : QLt(d, QInt(max_path_dist * max_path_dist))

\* cost is the ratio r = d / max_path_dist of row i shaped by neighbor_cost:
\* r when linear, r * r when quadratic, 0 when zero.
Shaped(i, cost) ==
    LET r2 == QMul(NearestDist2(i), Q(1, max_path_dist * max_path_dist))
    IN  /\ neighbor_cost = "linear" => (QLe(QInt(0), cost) /\ QMul(cost, cost) = r2)
        /\ neighbor_cost = "quadratic" => cost = r2
        /\ neighbor_cost = "zero" => cost = QInt(0)

\* C13: in the grid fill_grid returns, every non-obstacle cell whose nearest
\* way point is at distance d < max_path_dist has the cost obtained from
\* r = d / max_path_dist by the shape set: r under linear, r * r under
\* quadratic, 0 under zero; a cell on a way point has cost 0 under all three.
C13_OnPathCostShaped ==
    (filled # NotCalled /\ neighbor_cost \in KnownShapes) =>
        \A i \in 1 .. Len(grid) :
            (~Obstacle(i) /\ OnPath(i)) =>
                /\ GridReturned
                /\ Shaped(i, filled.grid[i][3])
                /\ NearestDist2(i) = QInt(0) => filled.grid[i][3] = QInt(0)

\* C14: for every point list the distance matrix is N x N with D[i][i] = 0
\* and D[i][j] a non-negative integer, in the geodesic mode (haversine,
\* truncated to metres) and in the planar mode (Euclidean distance times
\* 1000, truncated).
C14_MatrixSquareNonNegative ==
    LET D == Matrix
        n == Len(points)
    IN  /\ DOMAIN D = Range(n)
        /\ \A i \in Range(n) :
              /\ DOMAIN D[i] = Range(n)
              /\ D[i][i] = 0
              /\ \A j \in Range(n) : D[i][j] \in Nat

\* The GUI's solve_path has computed the matrix of three points, two of
\* them a diagonal pixel apart: int(sqrt(2) * 1000) = 1414.
C14_Witness ==
    /\ prog = "gui"
    /\ ret.op = "solve_path"
    /\ ret.calls # <<>>
    /\ Len(points) = 3
    /\ \E i \in Range(3), j \in Range(3) : Matrix[i][j] = 1414

\* C15: after any sequence of add_point and clear_points (clear_canvas)
\* calls the i-th element of the point list has id i, so the ids are unique
\* and the indices of a returned path are ids of points; in the GUI the
\* point at position 0 is the start, the one at position 1 the goal and all
\* others are intermediate.
C15_IdsArePositions ==
    /\ \A i \in 1 .. Len(points) : points[i].id = i - 1
    /\ \A i \in 1 .. Len(points) : \A j \in 1 .. Len(points) :
          points[i].id = points[j].id => i = j
    /\ Solved =>
          \A k \in 1 .. Len(ret.path) :
              \E i \in 1 .. Len(points) : points[i].id = ret.path[k]
    /\ prog = "gui" =>
          \A i \in 1 .. Len(points) :
              points[i].type = (IF i = 1 THEN "start"
                                ELSE IF i = 2 THEN "goal" ELSE "intermediate")

\* The GUI has solved a list of three points, added one by one.
C15_Witness ==
    /\ prog = "gui"
    /\ Solved
    /\ Len(points) = 3
    /\ Len(ret.path) = 3
    /\ point_counter = 3

\* C16: in every interleaving of the capture thread with create_wormhole's
\* give-up path and with cancel_wormhole, the thread never reads or writes
\* active_transfers[transfer_id] once that entry has been removed: it looks
\* up no transfer id that is absent from active_transfers.
C16_ThreadNeverLooksUpRemoved == key_error = {}

\* C17: every temporary directory create_wormhole creates is eventually
\* removed, whichever way the request and the transfer end.
C17_TempDirEventuallyRemoved == (temp_dir = "exists") ~> (temp_dir = "removed")

===========================================================================
